---- MODULE Spec2Model ----
(***************************************************************************)
(* The single-writer task-queue actor of src/src/database.rs: a Database   *)
(* spawns one worker thread (database_thread) that owns the connection and *)
(* drains an unbounded async_channel of DatabaseTask envelopes; DataLink   *)
(* handles enqueue envelopes, each with a fresh unbounded reply channel.   *)
(***************************************************************************)
EXTENDS Integers, Sequences, FiniteSets, TLC

\* ------------------------------------------------------------------ bounds
MaxTasks == 2      \* envelopes submitted in one run
NumCallers == 2    \* independent callers, each may own one DataLink
MaxRows == 2       \* rows a statement's row source yields
MaxCols == 1       \* declared column count of a statement
WordBits == 4      \* width of the host word (usize, isize) and of a store integer
MaxText == 2       \* characters of a text value

Callers == 1..NumCallers
Ids == 1..MaxTasks
RowFail == 0 - 1   \* a row source step that returns Err

VARIABLES
    worker,     \* position of database_thread: "opening", "mainloop", "returned"
    conn,       \* the connection: "unopened", "open", "failed", "closed"
    dbOwner,    \* the Database struct (and its DataLink) is alive
    holds,      \* holds[c]: caller c owns a DataLink clone
    queue,      \* the task channel's content, ids in enqueue order
    task,       \* task[e]: the call that built envelope e; late: made after the worker returned
    phase,      \* phase[e]: "none", "queued", "done", "discarded", "destroyed"
    outcome,    \* outcome[e]: what the store did with e's statement
    rxOpen,     \* rxOpen[e]: the reply channel's Receiver is alive
    sendLog,    \* every send_blocking of the worker on a reply channel, in order
    dispatched, \* ids in the order the worker's match received them
    lastRowid,  \* connection.last_insert_rowid()
    pc,         \* pc[c]: "idle" or "await" (suspended in receiver.recv().await)
    cur,        \* cur[c]: the envelope caller c awaits
    ret,        \* ret[e]: what the call that built e returned
    atClose,    \* ids still queued when the last Sender was dropped
    events,     \* the worker's row-source steps and reply sends, in program order
    cell        \* one value on its way through bind, store and extraction

vars == <<worker, conn, dbOwner, holds, queue, task, phase, outcome, rxOpen,
          sendLog, dispatched, lastRowid, pc, cur, ret, atClose, events, cell>>

\* the actor's variables, without the value round trip
actor == <<worker, conn, dbOwner, holds, queue, task, phase, outcome, rxOpen,
           sendLog, dispatched, lastRowid, pc, cur, ret, atClose, events>>

\* ------------------------------------------------------------ value domain
\* ItemStream, InsertMessage and () as records of one shape
Msg(t, v) == [t |-> t, v |-> v]
Unit == Msg("Unit", 0)
Success(v) == Msg("Success", v)
InsertError == Msg("InsertError", 0)
Value(n) == Msg("Value", n)
Error == Msg("Error", 0)
End == Msg("End", 0)

\* return values of the DataLink methods
Ret(t, v) == [t |-> t, v |-> v]
Pending == Ret("pending", 0)

NoTask == [op |-> "none", caller |-> 0, late |-> FALSE]
NoOutcome == [stmt |-> "none", ins |-> FALSE, cols |-> 0, src |-> <<>>]

\* DatabaseTask variant built by each DataLink method
Variant(op) ==
    CASE op = "execute" -> "Execute"
      [] op = "execute_and_wait" -> "WaitExecute"
      [] op \in {"insert", "insert_stream"} -> "Insert"
      [] op \in {"query_stream", "query_map"} -> "Query"
      [] OTHER -> "none"

\* DatabaseParam
ParamString(s) == [k |-> "String", s |-> s]
ParamUsize(n) == [k |-> "Usize", n |-> n]
ParamNull == [k |-> "Null"]
ParamF64(f) == [k |-> "F64", f |-> f]

\* rusqlite's Value / ValueRef
NativeText(b) == [k |-> "Text", b |-> b]
NativeInteger(i) == [k |-> "Integer", i |-> i]
NativeReal(f) == [k |-> "Real", f |-> f]
NativeNull == [k |-> "Null"]
NativeBlob(b) == [k |-> "Blob", b |-> b]

Word == 2 ^ WordBits

\* characters of the texts tried: a one-byte and a two-byte scalar value
Chars == {97, 233}

\* bit patterns of the floats tried
Floats == {"0.0", "-0.0", "1.5", "-1.5", "inf", "nan"}

\* every DatabaseParam a caller can build within the bounds
Params ==
    {ParamString(s) : s \in UNION {[1..n -> Chars] : n \in 0..MaxText}}
    \cup {ParamUsize(n) : n \in 0..(Word - 1)}
    \cup {ParamNull}
    \cup {ParamF64(f) : f \in Floats}

\* `v as isize`: the same bits read as a signed word
AsSigned(v) == IF v >= Word \div 2 THEN v - Word ELSE v

\* `i as usize`: the same bits read as an unsigned word
AsUnsigned(i) == (i + Word) % Word

\* the bytes of a String (UTF-8)
RECURSIVE Utf8(_)
Utf8(s) ==
    IF s = <<>> THEN <<>>
    ELSE IF Head(s) < 128 THEN <<Head(s)>> \o Utf8(Tail(s))
    ELSE <<192 + (Head(s) \div 64), 128 + (Head(s) % 64)>> \o Utf8(Tail(s))

\* String::from_utf8_lossy: well-formed sequences decode, any other byte
\* becomes U+FFFD
RECURSIVE FromUtf8Lossy(_)
FromUtf8Lossy(b) ==
    IF b = <<>> THEN <<>>
    ELSE IF b[1] < 128 THEN <<b[1]>> \o FromUtf8Lossy(Tail(b))
    ELSE IF /\ b[1] >= 194 /\ b[1] <= 223 /\ Len(b) >= 2
            /\ b[2] >= 128 /\ b[2] <= 191
        THEN <<(b[1] - 192) * 64 + (b[2] - 128)>> \o FromUtf8Lossy(Tail(Tail(b)))
    ELSE <<65533>> \o FromUtf8Lossy(Tail(b))

\* DatabaseParam::to_sql
ToSql(p) ==
    CASE p.k = "String" -> NativeText(Utf8(p.s))
      [] p.k = "Usize" -> NativeInteger(AsSigned(p.n))
      [] p.k = "Null" -> NativeNull
      [] p.k = "F64" -> NativeReal(p.f)

\* what the store keeps of a bound native value: a NaN is kept as NULL,
\* everything else as given
Stored(n) == IF n.k = "Real" /\ n.f = "nan" THEN NativeNull ELSE n

\* a classification of ValueRef that clamps a negative integer to 0
FromNativeClamped(n) ==
    CASE n.k = "Null" -> ParamNull
      [] n.k = "Integer" -> ParamUsize(IF n.i < 0 THEN 0 ELSE n.i)
      [] n.k = "Real" -> ParamF64(n.f)
      [] n.k = "Text" -> ParamString(FromUtf8Lossy(n.b))
      [] n.k = "Blob" -> ParamNull

\* the match on ValueRef in the row closure
FromNative(n) ==
    CASE n.k = "Null" -> ParamNull
      [] n.k = "Integer" -> ParamUsize(AsUnsigned(n.i))
      [] n.k = "Real" -> ParamF64(n.f)
      [] n.k = "Text" -> ParamString(FromUtf8Lossy(n.b))
      [] n.k = "Blob" -> ParamNull

NoCell == [at |-> "idle", param |-> ParamNull, native |-> NativeNull, out |-> ParamNull]

\* ------------------------------------------------------------ channels
\* live Sender clones of the task channel
Senders == (IF dbOwner THEN 1 ELSE 0) + Cardinality({c \in Callers : holds[c]})

NumTasks == Cardinality({e \in Ids : task[e].op # "none"})

\* what the worker passed to send_blocking on e's reply channel
Sent(e) ==
    LET mine(x) == x.id = e
        s == SelectSeq(sendLog, mine)
    IN [i \in 1..Len(s) |-> s[i].m]

\* what reached e's reply channel (a send to a dropped Receiver fails)
Delivered(e) ==
    LET mine(x) == x.id = e /\ x.ok
        s == SelectSeq(sendLog, mine)
    IN [i \in 1..Len(s) |-> s[i].m]

\* a refused envelope that is kept alive instead of dropped
TxClosedLeaked(e) == phase[e] \in {"done", "destroyed"}

\* the reply Sender travels inside the envelope and is dropped with it
TxClosed(e) == phase[e] \in {"done", "discarded", "destroyed"}

\* sender.send_blocking(m) for each m of ms, on e's reply channel
SendAll(e, ms) ==
    sendLog \o [i \in 1..Len(ms) |-> [id |-> e, m |-> ms[i], ok |-> rxOpen[e]]]

\* the channel's memory is freed with its last endpoint: queued envelopes drop
Destroy(ph, q) ==
    [e \in Ids |-> IF \E i \in 1..Len(q) : q[i] = e THEN "destroyed" ELSE ph[e]]

\* ------------------------------------------------------------ the store
\* what connection.prepare / statement.execute can do with an Execute,
\* WaitExecute or Insert statement; ins: the run inserted a row
StmtOutcomes ==
    {[stmt |-> "prepare_err", ins |-> FALSE, cols |-> 0, src |-> <<>>],
     [stmt |-> "run_err", ins |-> FALSE, cols |-> 0, src |-> <<>>],
     [stmt |-> "ok", ins |-> FALSE, cols |-> 0, src |-> <<>>],
     [stmt |-> "ok", ins |-> TRUE, cols |-> 0, src |-> <<>>]}

\* a row source: per row the number of columns get_ref extracts, or RowFail for
\* a step that returns Err (the source is reset by it: nothing follows)
RowSources(c) ==
    {s \in UNION {[1..k -> (0..c) \cup {RowFail}] : k \in 0..MaxRows} :
        \A i \in 1..Len(s) : s[i] = RowFail => i = Len(s)}

\* what prepare / query_map can do with a Query statement
QueryOutcomes ==
    {[stmt |-> "prepare_err", ins |-> FALSE, cols |-> 0, src |-> <<>>],
     [stmt |-> "run_err", ins |-> FALSE, cols |-> 0, src |-> <<>>]}
    \cup UNION {{[stmt |-> "ok", ins |-> FALSE, cols |-> c, src |-> s] :
                    s \in RowSources(c)} : c \in 1..MaxCols}

\* connection.last_insert_rowid() once the statement has been run
RunStatement(o) == IF o.stmt = "ok" /\ o.ins THEN lastRowid + 1 ELSE lastRowid

\* ------------------------------------------------------------ worker replies
\* a WaitExecute arm that signals only when the prepare succeeded
WaitExecuteRepliesPreparedOnly(o) == IF o.stmt = "prepare_err" THEN <<>> ELSE <<Unit>>

\* WaitExecute arm: the unit is sent on both branches of the prepare
WaitExecuteReplies(o) == <<Unit>>

\* an Insert arm that reads last_insert_rowid() before it runs the statement
InsertRepliesReadFirst(o) ==
    IF o.stmt = "prepare_err" THEN <<InsertError>> ELSE <<Success(lastRowid)>>

\* Insert arm: Error on a failed prepare, else Success(last_insert_rowid())
\* whatever statement.execute returned
InsertReplies(o) ==
    IF o.stmt = "prepare_err" THEN <<InsertError>> ELSE <<Success(RunStatement(o))>>

\* a row closure without the column-count check: a short row is forwarded
RECURSIVE CollectRowsUnchecked(_, _)
CollectRowsUnchecked(src, cols) ==
    IF src = <<>> THEN <<>>
    ELSE IF Head(src) = RowFail THEN <<>>
    ELSE <<Value(Head(src))>> \o CollectRowsUnchecked(Tail(src), cols)

\* rows.filter_map(|x| x.ok()).collect(): a row is kept when every column was
\* extracted; a short row maps to Err and is dropped; a failed step is dropped
\* and ends the iteration
RECURSIVE CollectRows(_, _)
CollectRows(src, cols) ==
    IF src = <<>> THEN <<>>
    ELSE IF Head(src) = RowFail THEN <<>>
    ELSE IF Head(src) = cols THEN <<Value(cols)>> \o CollectRows(Tail(src), cols)
    ELSE CollectRows(Tail(src), cols)

\* a Query arm whose query_map failure sends Error and falls through to End
QueryRepliesNoContinue(o) ==
    IF o.stmt = "prepare_err" THEN <<Error>>
    ELSE IF o.stmt = "run_err" THEN <<Error, End>>
    ELSE CollectRows(o.src, o.cols) \o <<End>>

\* Query arm: Error and continue on a failed prepare or query_map, else every
\* collected row and then End
QueryReplies(o) ==
    IF o.stmt = "prepare_err" THEN <<Error>>
    ELSE IF o.stmt = "run_err" THEN <<Error>>
    ELSE CollectRows(o.src, o.cols) \o <<End>>

\* ------------------------------------------------------------ caller results
\* execute_and_wait: Ok on a received unit, Err when recv fails
ExecuteAndWaitResult(d) == IF d # <<>> THEN Ret("Ok", 0) ELSE Ret("Err", 0)

\* an insert that unwraps InsertMessage::Error to identifier 0
InsertResultErrorAsZero(d) ==
    IF d = <<>> THEN Ret("None", 0)
    ELSE IF d[1].t = "Success" THEN Ret("Some", d[1].v)
    ELSE Ret("Some", 0)

\* insert: None when recv fails or on InsertMessage::Error, Some(v) on Success(v)
InsertResult(d) ==
    IF d = <<>> THEN Ret("None", 0)
    ELSE IF d[1].t = "Success" THEN Ret("Some", d[1].v)
    ELSE Ret("None", 0)

\* query_map's while-let loop over the reply channel from item i on, n rows
\* pushed so far: End breaks, Error sets the flag and breaks, a failed recv
\* leaves the loop with the flag unset
RECURSIVE QueryMapLoop(_, _, _)
QueryMapLoop(d, i, n) ==
    IF i > Len(d) THEN Ret("Rows", n)
    ELSE IF d[i].t = "End" THEN Ret("Rows", n)
    ELSE IF d[i].t = "Error" THEN Ret("GenericError", 0)
    ELSE QueryMapLoop(d, i + 1, n + 1)

\* a query_map whose Error item breaks without setting the flag
QueryMapResultNoFlag(d) ==
    IF QueryMapLoop(d, 1, 0).t = "GenericError" THEN Ret("Rows", 0)
    ELSE QueryMapLoop(d, 1, 0)

QueryMapResult(d) == QueryMapLoop(d, 1, 0)

\* ------------------------------------------------------------ initial state
\* the state Database::new returns in: the thread is spawned, the Database
\* holds the only DataLink
ActorInit ==
    /\ worker = "opening"
    /\ conn = "unopened"
    /\ dbOwner = TRUE
    /\ holds = [c \in Callers |-> FALSE]
    /\ queue = <<>>
    /\ task = [e \in Ids |-> NoTask]
    /\ phase = [e \in Ids |-> "none"]
    /\ outcome = [e \in Ids |-> NoOutcome]
    /\ rxOpen = [e \in Ids |-> FALSE]
    /\ sendLog = <<>>
    /\ dispatched = <<>>
    /\ lastRowid = 0
    /\ pc = [c \in Callers |-> "idle"]
    /\ cur = [c \in Callers |-> 0]
    /\ ret = [e \in Ids |-> Pending]
    /\ atClose = {}
    /\ events = <<>>

Init == ActorInit /\ cell = NoCell

\* ------------------------------------------------------------ handles
\* Database::derive: a caller gets a clone of the Database's DataLink
derive(c) ==
    /\ dbOwner
    /\ ~holds[c]
    /\ pc[c] = "idle"
    /\ holds' = [holds EXCEPT ![c] = TRUE]
    /\ UNCHANGED <<worker, conn, dbOwner, queue, task, phase, outcome, rxOpen,
                   sendLog, events, dispatched, lastRowid, pc, cur, ret, atClose>>

\* a Sender of the task channel is dropped; with the last one the channel
\* closes, and if the Receiver is gone too the queued envelopes are freed
SenderDropped ==
    IF Senders = 1
    THEN /\ atClose' = {queue[i] : i \in 1..Len(queue)}
         /\ IF worker = "returned"
            THEN phase' = Destroy(phase, queue) /\ queue' = <<>>
            ELSE UNCHANGED <<phase, queue>>
    ELSE UNCHANGED <<atClose, phase, queue>>

\* a caller drops its DataLink (not while a call borrows it)
DropLink(c) ==
    /\ holds[c]
    /\ pc[c] = "idle"
    /\ holds' = [holds EXCEPT ![c] = FALSE]
    /\ SenderDropped
    /\ UNCHANGED <<worker, conn, dbOwner, task, outcome, rxOpen, sendLog, events,
                   dispatched, lastRowid, pc, cur, ret>>

\* the Database is dropped: its DataLink goes, the thread is detached
DropDatabase ==
    /\ dbOwner
    /\ dbOwner' = FALSE
    /\ SenderDropped
    /\ UNCHANGED <<worker, conn, holds, task, outcome, rxOpen, sendLog, events,
                   dispatched, lastRowid, pc, cur, ret>>

\* ------------------------------------------------------------ submission
\* a send that succeeds on a channel whose Receiver is gone
AcceptedAlways == TRUE

\* task_sender.send_blocking(task) succeeds while the Receiver is alive
Accepted == worker # "returned"

\* the common part of every DataLink method: build envelope e, try to enqueue
\* it; a failed send hands the envelope back and it is dropped
Submit(c, op, e) ==
    /\ holds[c]
    /\ pc[c] = "idle"
    /\ NumTasks < MaxTasks
    /\ e = NumTasks + 1
    /\ task' = [task EXCEPT ![e] = [op |-> op, caller |-> c, late |-> worker = "returned"]]
    /\ phase' = [phase EXCEPT ![e] = IF Accepted THEN "queued" ELSE "discarded"]
    /\ queue' = IF Accepted THEN Append(queue, e) ELSE queue
    /\ UNCHANGED <<worker, conn, dbOwner, holds, outcome, sendLog, events, dispatched,
                   lastRowid, atClose>>

\* returns the send's result at once; no reply channel
execute(c) ==
    \E e \in Ids :
        /\ Submit(c, "execute", e)
        /\ ret' = [ret EXCEPT ![e] = IF Accepted THEN Ret("Ok", 0) ELSE Ret("Err", 0)]
        /\ UNCHANGED <<rxOpen, pc, cur>>

\* the three suspending methods: enqueue, then receiver.recv().await
Await(c, op) ==
    \E e \in Ids :
        /\ Submit(c, op, e)
        /\ rxOpen' = [rxOpen EXCEPT ![e] = TRUE]
        /\ pc' = [pc EXCEPT ![c] = "await"]
        /\ cur' = [cur EXCEPT ![c] = e]
        /\ UNCHANGED ret

execute_and_wait(c) == Await(c, "execute_and_wait")

insert(c) == Await(c, "insert")

query_map(c) == Await(c, "query_map")

\* the two streaming methods: enqueue, return the Receiver
Stream(c, op) ==
    \E e \in Ids :
        /\ Submit(c, op, e)
        /\ rxOpen' = [rxOpen EXCEPT ![e] = TRUE]
        /\ ret' = [ret EXCEPT ![e] = Ret("Receiver", 0)]
        /\ UNCHANGED <<pc, cur>>

insert_stream(c) == Stream(c, "insert_stream")

query_stream(c) == Stream(c, "query_stream")

\* the caller of a streaming method drops the Receiver it was given
DropReceiver(e) ==
    /\ task[e].op \in {"insert_stream", "query_stream"}
    /\ rxOpen[e]
    /\ rxOpen' = [rxOpen EXCEPT ![e] = FALSE]
    /\ UNCHANGED <<worker, conn, dbOwner, holds, queue, task, phase, outcome,
                   sendLog, events, dispatched, lastRowid, pc, cur, ret, atClose>>

\* ------------------------------------------------------------ resumption
\* recv() completes with a message, or with Err once the channel is closed
\* and empty
Resume(c, op, r) ==
    /\ pc[c] = "await"
    /\ task[cur[c]].op = op
    /\ Delivered(cur[c]) # <<>> \/ TxClosed(cur[c])
    /\ ret' = [ret EXCEPT ![cur[c]] = r]
    /\ rxOpen' = [rxOpen EXCEPT ![cur[c]] = FALSE]
    /\ pc' = [pc EXCEPT ![c] = "idle"]
    /\ cur' = [cur EXCEPT ![c] = 0]
    /\ UNCHANGED <<worker, conn, dbOwner, holds, queue, task, phase, outcome,
                   sendLog, events, dispatched, lastRowid, atClose>>

execute_and_wait_resume(c) ==
    Resume(c, "execute_and_wait", ExecuteAndWaitResult(Delivered(cur[c])))

insert_resume(c) == Resume(c, "insert", InsertResult(Delivered(cur[c])))

query_map_resume(c) == Resume(c, "query_map", QueryMapResult(Delivered(cur[c])))

\* ------------------------------------------------------------ worker thread
\* Connection::open succeeds: the thread enters 'mainloop
OpenOk ==
    /\ worker = "opening"
    /\ worker' = "mainloop"
    /\ conn' = "open"
    /\ UNCHANGED <<dbOwner, holds, queue, task, phase, outcome, rxOpen, sendLog, events,
                   dispatched, lastRowid, pc, cur, ret, atClose>>

\* the thread returns and task_receiver is dropped: the channel closes; what
\* is queued stays in it until the last Sender goes too
ReceiverDropped ==
    IF Senders = 0
    THEN phase' = Destroy(phase, queue) /\ queue' = <<>>
    ELSE UNCHANGED <<phase, queue>>

\* Connection::open fails: the thread returns before the loop
OpenFail ==
    /\ worker = "opening"
    /\ worker' = "returned"
    /\ conn' = "failed"
    /\ ReceiverDropped
    /\ UNCHANGED <<dbOwner, holds, task, outcome, rxOpen, sendLog, events, dispatched,
                   lastRowid, pc, cur, ret, atClose>>

\* a receive that takes the newest queued envelope
NextTaskNewest == queue[Len(queue)]

\* recv_blocking returns the oldest queued envelope
NextTask == Head(queue)

\* a Query arm that sends each retained row before it steps to the next one
RECURSIVE StreamedEvents(_, _, _)
StreamedEvents(e, src, cols) ==
    IF src = <<>> THEN <<[id |-> e, ev |-> "step"], [id |-> e, ev |-> "send"]>>
    ELSE IF Head(src) = RowFail THEN <<[id |-> e, ev |-> "step"], [id |-> e, ev |-> "send"]>>
    ELSE IF Head(src) = cols
        THEN <<[id |-> e, ev |-> "step"], [id |-> e, ev |-> "send"]>>
                \o StreamedEvents(e, Tail(src), cols)
    ELSE <<[id |-> e, ev |-> "step"]>> \o StreamedEvents(e, Tail(src), cols)

WorkerEventsStreaming(e, o, msgs) ==
    IF o.stmt = "ok" /\ o.cols > 0
    THEN StreamedEvents(e, o.src, o.cols)
    ELSE [i \in 1..Len(msgs) |-> [id |-> e, ev |-> "send"]]

\* the steps of the row source made by collect(): one per row it yields and
\* the one that ends it (exhaustion, or the step that fails)
Steps(src) ==
    IF \E i \in 1..Len(src) : src[i] = RowFail THEN Len(src) ELSE Len(src) + 1

\* what an arm does in program order: a Query whose query_map succeeded
\* first collects the whole row source into a Vec, then runs the send loop;
\* every other path only sends
WorkerEvents(e, o, msgs) ==
    (IF o.stmt = "ok" /\ o.cols > 0
        THEN [i \in 1..Steps(o.src) |-> [id |-> e, ev |-> "step"]]
        ELSE <<>>)
    \o [i \in 1..Len(msgs) |-> [id |-> e, ev |-> "send"]]

\* a turn that leaves the loop when the statement or a reply send failed
TurnFatal(e, o, msgs) ==
    /\ queue' = Tail(queue)
    /\ dispatched' = Append(dispatched, e)
    /\ outcome' = [outcome EXCEPT ![e] = o]
    /\ lastRowid' = RunStatement(o)
    /\ sendLog' = SendAll(e, msgs)
    /\ events' = events \o WorkerEvents(e, o, msgs)
    /\ phase' = [phase EXCEPT ![e] = "done"]
    /\ worker' = IF o.stmt # "ok" \/ (msgs # <<>> /\ ~rxOpen[e]) THEN "returned" ELSE worker
    /\ UNCHANGED <<conn, dbOwner, holds, task, rxOpen, pc, cur, ret, atClose>>

\* one turn of 'mainloop on envelope e with store outcome o: the match arm
\* runs the statement, sends msgs, and drops the envelope
Turn(e, o, msgs) ==
    /\ queue' = Tail(queue)
    /\ dispatched' = Append(dispatched, e)
    /\ outcome' = [outcome EXCEPT ![e] = o]
    /\ lastRowid' = RunStatement(o)
    /\ sendLog' = SendAll(e, msgs)
    /\ events' = events \o WorkerEvents(e, o, msgs)
    /\ phase' = [phase EXCEPT ![e] = "done"]
    /\ UNCHANGED <<worker, conn, dbOwner, holds, task, rxOpen, pc, cur, ret, atClose>>

\* a worker whose reply sends wait for the caller: it gets to the next
\* envelope only once every streamed reply has been taken or abandoned
ReceivesOnceRead(variant) ==
    /\ worker = "mainloop"
    /\ queue # <<>>
    /\ Variant(task[NextTask].op) = variant
    /\ \A e \in Ids :
        (task[e].op \in {"insert_stream", "query_stream"} /\ rxOpen[e]) => Delivered(e) = <<>>

\* recv_blocking hands the arm of its variant the oldest envelope; nothing
\* else gates a turn (send_blocking on an unbounded channel never waits)
Receives(variant) ==
    /\ worker = "mainloop"
    /\ queue # <<>>
    /\ Variant(task[NextTask].op) = variant

DispatchExecute ==
    /\ Receives("Execute")
    /\ \E o \in StmtOutcomes : Turn(NextTask, o, <<>>)

DispatchWaitExecute ==
    /\ Receives("WaitExecute")
    /\ \E o \in StmtOutcomes : Turn(NextTask, o, WaitExecuteReplies(o))

DispatchInsert ==
    /\ Receives("Insert")
    /\ \E o \in StmtOutcomes : Turn(NextTask, o, InsertReplies(o))

DispatchQuery ==
    /\ Receives("Query")
    /\ \E o \in QueryOutcomes : Turn(NextTask, o, QueryReplies(o))

\* a receive that fails as soon as every Sender is gone, queue drained or not
RecvClosedEarly ==
    /\ worker = "mainloop"
    /\ Senders = 0
    /\ worker' = "returned"
    /\ conn' = "closed"
    /\ phase' = Destroy(phase, queue)
    /\ queue' = <<>>
    /\ UNCHANGED <<dbOwner, holds, task, outcome, rxOpen, sendLog, events, dispatched,
                   lastRowid, pc, cur, ret, atClose>>

\* a receive that reports the channel closed whenever it is empty
RecvClosedIdle ==
    /\ worker = "mainloop"
    /\ queue = <<>>
    /\ worker' = "returned"
    /\ conn' = "closed"
    /\ UNCHANGED <<dbOwner, holds, queue, task, phase, outcome, rxOpen, sendLog, events,
                   dispatched, lastRowid, pc, cur, ret, atClose>>

\* recv_blocking returns Err: the channel is empty and every Sender is gone
RecvClosed ==
    /\ worker = "mainloop"
    /\ queue = <<>>
    /\ Senders = 0
    /\ worker' = "returned"
    /\ conn' = "closed"
    /\ UNCHANGED <<dbOwner, holds, queue, task, phase, outcome, rxOpen, sendLog, events,
                   dispatched, lastRowid, pc, cur, ret, atClose>>

database_thread ==
    \/ OpenOk
    \/ OpenFail
    \/ DispatchExecute
    \/ DispatchWaitExecute
    \/ DispatchInsert
    \/ DispatchQuery
    \/ RecvClosed

\* ------------------------------------------------------------ specification
CallerStep(c) ==
    \/ derive(c)
    \/ DropLink(c)
    \/ execute(c)
    \/ execute_and_wait(c)
    \/ insert(c)
    \/ insert_stream(c)
    \/ query_stream(c)
    \/ query_map(c)
    \/ execute_and_wait_resume(c)
    \/ insert_resume(c)
    \/ query_map_resume(c)

ActorStep ==
    \/ database_thread
    \/ DropDatabase
    \/ \E c \in Callers : CallerStep(c)
    \/ \E e \in Ids : DropReceiver(e)

Next == ActorStep /\ UNCHANGED cell

Spec == Init /\ [][Next]_vars

\* the worker thread is scheduled, and a caller whose recv can complete resumes
FairSpec ==
    /\ Spec
    /\ WF_vars(database_thread /\ UNCHANGED cell)
    /\ \A c \in Callers :
        WF_vars((execute_and_wait_resume(c) \/ insert_resume(c) \/ query_map_resume(c))
                    /\ UNCHANGED cell)

\* ------------------------------------------------------------ value round trip
\* a caller builds a parameter
ValueInit ==
    /\ ActorInit
    /\ cell \in {[at |-> "param", param |-> p, native |-> NativeNull, out |-> ParamNull] :
                    p \in Params}

\* DatabaseParams::to_params maps to_sql over the parameters
Bind ==
    /\ cell.at = "param"
    /\ cell' = [cell EXCEPT !.at = "bound", !.native = ToSql(cell.param)]
    /\ UNCHANGED actor

\* the statement runs with the bound value and the store keeps it
Store ==
    /\ cell.at = "bound"
    /\ cell' = [cell EXCEPT !.at = "stored", !.native = Stored(cell.native)]
    /\ UNCHANGED actor

\* a Query reads the column back through row.get_ref
Extract ==
    /\ cell.at = "stored"
    /\ cell' = [cell EXCEPT !.at = "extracted", !.out = FromNative(cell.native)]
    /\ UNCHANGED actor

ValueNext == Bind \/ Store \/ Extract

ValueSpec == ValueInit /\ [][ValueNext]_vars

\* ------------------------------------------------------------ properties
Processed(e) == phase[e] = "done"

Was(e, variant) == Variant(task[e].op) = variant

Returned(e) == ret[e] # Pending

\* Value rows, then one terminal marker and nothing after it
WellFormedStream(s) ==
    /\ Len(s) >= 1
    /\ s[Len(s)].t \in {"End", "Error"}
    /\ \A i \in 1..(Len(s) - 1) : s[i].t = "Value"

HasTerminal(s) == \E i \in 1..Len(s) : s[i].t \in {"End", "Error"}

\* C1: envelope ids number the enqueues in order; the worker dispatches in
\* exactly that order, every reply of an earlier envelope is sent before any
\* reply of a later one, and what is still queued is younger than all that
\* was dispatched.
C1_GlobalFifo ==
    /\ \A i, j \in 1..Len(dispatched) : i < j => dispatched[i] < dispatched[j]
    /\ \A i, j \in 1..Len(sendLog) : i < j => sendLog[i].id <= sendLog[j].id
    /\ \A i \in 1..Len(dispatched), j \in 1..Len(queue) : dispatched[i] < queue[j]
    /\ \A i, j \in 1..Len(queue) : i < j => queue[i] < queue[j]

\* two callers' Inserts, both answered, the first submitted answered first
C1_Witness ==
    /\ Len(sendLog) = 2
    /\ sendLog[1].id = 1 /\ sendLog[2].id = 2
    /\ Was(1, "Insert") /\ Was(2, "Insert")
    /\ task[1].caller # task[2].caller

\* C2: the worker's sends for a processed Query are Value rows followed by
\* exactly one terminal (End or Error) and nothing after; the reply channel
\* holds exactly those messages unless its Receiver was dropped; a statement
\* that ran and matched zero rows gives the single message End.
C2_QueryReplyShape ==
    \A e \in Ids :
        (Processed(e) /\ Was(e, "Query")) =>
            /\ WellFormedStream(Sent(e))
            /\ rxOpen[e] => Delivered(e) = Sent(e)
            /\ (outcome[e].stmt = "ok" /\ outcome[e].src = <<>>) => Sent(e) = <<End>>

\* one Query answered with rows and End, another matching zero rows
C2_Witness ==
    /\ \E e \in Ids :
        /\ Processed(e) /\ Was(e, "Query")
        /\ Len(Delivered(e)) = MaxRows + 1
        /\ Delivered(e)[1].t = "Value"
        /\ Delivered(e)[Len(Delivered(e))].t = "End"
    /\ \E e \in Ids :
        /\ Processed(e) /\ Was(e, "Query")
        /\ outcome[e].stmt = "ok" /\ outcome[e].src = <<>>
        /\ Delivered(e) = <<End>>

\* C3: a Query whose prepare failed is answered with the single message
\* Error; query_stream's Receiver holds only that Error, and query_map
\* returns the generic failure.
C3_PrepareFailure ==
    \A e \in Ids :
        (Processed(e) /\ Was(e, "Query") /\ outcome[e].stmt = "prepare_err") =>
            /\ Sent(e) = <<Error>>
            /\ (task[e].op = "query_stream" /\ rxOpen[e]) => Delivered(e) = <<Error>>
            /\ (task[e].op = "query_map" /\ Returned(e)) => ret[e] = Ret("GenericError", 0)

\* both call shapes have met a failed prepare
C3_Witness ==
    /\ \E e \in Ids :
        /\ task[e].op = "query_map" /\ outcome[e].stmt = "prepare_err"
        /\ ret[e] = Ret("GenericError", 0)
    /\ \E e \in Ids :
        /\ task[e].op = "query_stream" /\ outcome[e].stmt = "prepare_err"
        /\ Delivered(e) = <<Error>>

\* C4: every processed WaitExecute was answered with exactly one unit,
\* whatever the statement did, and a caller suspended in execute_and_wait
\* while the worker runs with its connection open is eventually resumed
\* with Ok.
C4_AckAlways ==
    /\ [](\A e \in Ids : (Processed(e) /\ Was(e, "WaitExecute")) => Sent(e) = <<Unit>>)
    /\ \A e \in Ids :
        (task[e].op = "execute_and_wait" /\ phase[e] = "queued" /\ conn = "open")
            ~> (ret[e] = Ret("Ok", 0))

\* execute_and_wait returned Ok for a statement that failed to prepare
C4_Witness ==
    \E e \in Ids :
        /\ task[e].op = "execute_and_wait"
        /\ outcome[e].stmt = "prepare_err"
        /\ ret[e] = Ret("Ok", 0)

\* C5: an Insert whose statement prepared but failed to run is answered
\* with InsertMessage::Error, and insert returns None.
C5_RunFailureIsError ==
    \A e \in Ids :
        (Processed(e) /\ Was(e, "Insert") /\ outcome[e].stmt = "run_err") =>
            /\ Sent(e) = <<InsertError>>
            /\ (task[e].op = "insert" /\ Returned(e)) => ret[e] = Ret("None", 0)

\* C6: every processed Insert was answered with exactly one message,
\* Success(id) or Error, and with Error when the prepare failed; insert
\* returns Some(id) for Success(id) and None for Error.
C6_InsertReply ==
    \A e \in Ids :
        (Processed(e) /\ Was(e, "Insert")) =>
            /\ Len(Sent(e)) = 1
            /\ Sent(e)[1].t \in {"Success", "InsertError"}
            /\ outcome[e].stmt = "prepare_err" => Sent(e) = <<InsertError>>
            /\ (task[e].op = "insert" /\ Returned(e)) =>
                /\ Sent(e)[1].t = "Success" => ret[e] = Ret("Some", Sent(e)[1].v)
                /\ Sent(e)[1].t = "InsertError" => ret[e] = Ret("None", 0)

\* one insert returned a generated identifier, another met a failed prepare
C6_Witness ==
    /\ \E e \in Ids :
        /\ task[e].op = "insert" /\ outcome[e].ins
        /\ ret[e] = Ret("Some", lastRowid) /\ lastRowid >= 1
    /\ \E e \in Ids :
        /\ task[e].op = "insert" /\ outcome[e].stmt = "prepare_err"
        /\ ret[e] = Ret("None", 0)

\* C7: a suspending call that returned although its reply channel closed
\* before the expected reply (for query_map: before a terminal) was sent
\* returned the generic failure: Err, None, or the generic error.
C7_ClosedIsFailure ==
    \A e \in Ids :
        /\ (task[e].op = "execute_and_wait" /\ Returned(e) /\ Sent(e) = <<>>) =>
            ret[e] = Ret("Err", 0)
        /\ (task[e].op = "insert" /\ Returned(e) /\ Sent(e) = <<>>) =>
            ret[e] = Ret("None", 0)
        /\ (task[e].op = "query_map" /\ Returned(e) /\ ~HasTerminal(Sent(e))) =>
            ret[e] = Ret("GenericError", 0)

\* C8 as stated: no request still queued when the last Sender was dropped
\* ever has a reply sent on its channel.
C8_PendingNeverSignaled == \A e \in atClose : Sent(e) = <<>>

\* C8 amended: once every Sender is dropped the worker reaches Terminated;
\* a worker that ran with its connection open has by then dispatched every
\* request that was queued at the drop; after it has returned no reply is
\* sent.
C8_DrainsThenTerminates ==
    /\ (Senders = 0) ~> (worker = "returned")
    /\ []((worker = "returned" /\ conn = "closed") => \A e \in atClose : Processed(e))
    /\ [][worker = "returned" => sendLog' = sendLog]_vars

\* the worker has returned after signaling a request that was queued when
\* the last Sender went
C8_Witness ==
    /\ Senders = 0
    /\ worker = "returned"
    /\ \E e \in atClose : Delivered(e) # <<>>

\* C9: every envelope the task channel accepted while the worker had not
\* terminated is dispatched exactly once: none is dispatched twice, and once
\* the worker has terminated none is left undispatched.
C9_AcceptedIsDispatched ==
    /\ \A i, j \in 1..Len(dispatched) : dispatched[i] = dispatched[j] => i = j
    /\ worker = "returned" =>
        \A e \in Ids :
            (task[e].op # "none" /\ ~task[e].late) =>
                \E i \in 1..Len(dispatched) : dispatched[i] = e

\* C10 as stated: after a failed open nothing is processed, and no call made
\* after the worker returned gives its caller an error or returns from a
\* suspension.
C10_NeverCompletes ==
    conn = "failed" =>
        /\ dispatched = <<>>
        /\ \A e \in Ids : task[e].late => ret[e].t \in {"pending", "Receiver"}

\* what each method returns when its envelope was refused by the channel
Refused(op) ==
    CASE op = "execute" -> Ret("Err", 0)
      [] op = "execute_and_wait" -> Ret("Err", 0)
      [] op = "insert" -> Ret("None", 0)
      [] op = "query_map" -> Ret("Rows", 0)
      [] OTHER -> Ret("Receiver", 0)

\* C10 amended: after a failed open nothing is processed and no reply is
\* sent; a suspending call enqueued before the worker returned stays
\* suspended; a call made after the worker returned is refused by the
\* channel, can resume at once, and returns its method's failure value.
C10_OpenFailure ==
    conn = "failed" =>
        /\ dispatched = <<>>
        /\ sendLog = <<>>
        /\ \A e \in Ids :
            /\ (phase[e] = "queued" /\ task[e].op \in {"execute_and_wait", "insert", "query_map"})
                => ~Returned(e)
            /\ task[e].late => (TxClosed(e) /\ ret[e] \in {Pending, Refused(task[e].op)})

\* after a failed open an execute and an insert both came back with failure
C10_Witness ==
    /\ conn = "failed"
    /\ \E e \in Ids : task[e].op = "execute" /\ task[e].late /\ ret[e] = Ret("Err", 0)
    /\ \E e \in Ids : task[e].op = "insert" /\ task[e].late /\ ret[e] = Ret("None", 0)

\* positions in events of e's row-source steps and of e's sends
StepsOf(e) == {i \in 1..Len(events) : events[i].id = e /\ events[i].ev = "step"}

SendsOf(e) == {i \in 1..Len(events) : events[i].id = e /\ events[i].ev = "send"}

RetainedRows(e) == Len(CollectRows(outcome[e].src, outcome[e].cols))

C12_RowSourceFailureIsError ==
    \A e \in Ids :
        (/\ Processed(e) /\ Was(e, "Query") /\ outcome[e].stmt = "ok"
         /\ \E i \in 1..Len(outcome[e].src) : outcome[e].src[i] = RowFail) =>
            /\ Sent(e)[Len(Sent(e))] = Error
            /\ \A i \in 1..Len(Sent(e)) : Sent(e)[i] # End

FailedSend(e) == \E i \in 1..Len(sendLog) : sendLog[i].id = e /\ ~sendLog[i].ok

\* C13: the turn that dispatches an envelope leaves the worker in its loop,
\* whatever the prepare, the run or the reply send did, and every envelope
\* queued while the connection is open is then dispatched in its turn.
C13_FailuresAreNotFatal ==
    /\ [][Len(dispatched') > Len(dispatched) => worker' = "mainloop"]_vars
    /\ \A e \in Ids : (phase[e] = "queued" /\ conn = "open") ~> Processed(e)

\* the second envelope was dispatched after the first one's statement failed
\* and its reply could not be sent
C13_Witness ==
    /\ dispatched = <<1, 2>>
    /\ outcome[1].stmt \in {"prepare_err", "run_err"}
    /\ FailedSend(1)
    /\ outcome[2].stmt = "run_err"
    /\ worker = "mainloop"

\* C14: the worker leaves Running only by a failed open or by a receive on
\* the empty task channel with no Sender left; once it has returned it stays
\* returned, dispatches nothing and sends nothing.
C14_TerminationCauses ==
    [][/\ (worker # "returned" /\ worker' = "returned") =>
            \/ worker = "opening" /\ conn' = "failed"
            \/ worker = "mainloop" /\ queue = <<>> /\ Senders = 0 /\ conn' = "closed"
       /\ worker = "returned" =>
            /\ worker' = "returned"
            /\ conn' = conn
            /\ dispatched' = dispatched
            /\ sendLog' = sendLog]_vars

\* the worker has returned on a closed, drained channel after dispatching
\* MaxTasks envelopes
C14_Witness ==
    /\ worker = "returned"
    /\ conn = "closed"
    /\ Len(dispatched) = MaxTasks
    /\ Senders = 0

\* C15: a request made after the worker dropped the task Receiver is
\* discarded: it is never dispatched and nothing is ever sent on its reply
\* channel; a caller suspended on it is resumed, execute_and_wait with Err
\* and insert with None.
C15_RefusedAfterReturn ==
    /\ [](\A e \in Ids : task[e].late =>
            /\ phase[e] = "discarded"
            /\ Sent(e) = <<>>
            /\ \A i \in 1..Len(dispatched) : dispatched[i] # e)
    /\ \A e \in Ids :
        (task[e].late /\ task[e].op \in {"execute_and_wait", "insert"})
            ~> (/\ task[e].op = "execute_and_wait" => ret[e] = Ret("Err", 0)
                /\ task[e].op = "insert" => ret[e] = Ret("None", 0))

\* both suspending calls were made after the worker returned and came back
C15_Witness ==
    /\ worker = "returned"
    /\ \E e \in Ids :
        task[e].late /\ task[e].op = "execute_and_wait" /\ ret[e] = Ret("Err", 0)
    /\ \E e \in Ids :
        task[e].late /\ task[e].op = "insert" /\ ret[e] = Ret("None", 0)

\* the identifier the store gave the row that e's run inserted: rows are
\* numbered in the order the runs that inserted them were dispatched
RowOf(e) ==
    Cardinality({i \in 1..Len(dispatched) :
        /\ outcome[dispatched[i]].ins
        /\ \E j \in i..Len(dispatched) : dispatched[j] = e})

\* C16: whichever callers' statements were dispatched around it, the Success
\* reply of an Insert whose run inserted a row carries that row's identifier.
C16_InsertIdIsOwnRow ==
    \A e \in Ids :
        (Processed(e) /\ Was(e, "Insert") /\ outcome[e].ins) =>
            Sent(e) = <<Success(RowOf(e))>>

\* two callers' Inserts each inserted a row and got distinct identifiers
C16_Witness ==
    /\ Was(1, "Insert") /\ Was(2, "Insert")
    /\ task[1].caller # task[2].caller
    /\ outcome[1].ins /\ outcome[2].ins
    /\ Delivered(1) = <<Success(1)>>
    /\ Delivered(2) = <<Success(2)>>

\* replies lying unread in the Receiver a streaming caller still holds
Unread(e) ==
    IF task[e].op \in {"insert_stream", "query_stream"} /\ rxOpen[e]
    THEN Len(Delivered(e)) ELSE 0

\* C17: in its loop the worker can take a step exactly when the task channel
\* holds an envelope or is closed; it waits only for an empty task channel
\* with a Sender alive, never for a caller to read replies.
C17_OnlyBlocksOnTaskChannel ==
    worker = "mainloop" =>
        /\ queue # <<>> => ENABLED database_thread
        /\ (ENABLED database_thread) <=> (queue # <<>> \/ Senders = 0)

\* a query_stream caller left MaxRows rows and End unread, and the worker
\* went on to answer another caller's request
C17_Witness ==
    /\ task[1].op = "query_stream"
    /\ Unread(1) = MaxRows + 1
    /\ task[2].caller # task[1].caller
    /\ Processed(2)
    /\ Delivered(2) # <<>>

\* the rows of e's row source from which every column was extracted
FullRows(e) == {i \in 1..Len(outcome[e].src) : outcome[e].src[i] = outcome[e].cols}

ValuesSent(e) == {i \in 1..Len(Sent(e)) : Sent(e)[i].t = "Value"}

\* C18: every Value sent for a Query holds exactly the statement's column
\* count of values; there is one Value per fully extracted row, none for a
\* short row, and End still follows them.
C18_OnlyFullRows ==
    \A e \in Ids :
        (Processed(e) /\ Was(e, "Query") /\ outcome[e].stmt = "ok") =>
            /\ \A i \in ValuesSent(e) : Sent(e)[i].v = outcome[e].cols
            /\ Cardinality(ValuesSent(e)) = Cardinality(FullRows(e))
            /\ Sent(e)[Len(Sent(e))] = End

\* a short row was dropped and the full row after it was still sent
C18_Witness ==
    \E e \in Ids :
        /\ Processed(e) /\ Was(e, "Query")
        /\ outcome[e].cols = MaxCols
        /\ Len(outcome[e].src) = 2
        /\ outcome[e].src[1] = MaxCols - 1
        /\ outcome[e].src[2] = MaxCols
        /\ Delivered(e) = <<Value(MaxCols), End>>

\* C19 as stated: every text, unsigned-integer, floating-point and null
\* Value comes back from bind, store and extraction equal to itself.
C19_RoundTrip == cell.at = "extracted" => cell.out = cell.param

\* C19 amended: every text, unsigned-integer and null Value and every
\* floating-point Value other than NaN comes back equal to itself, an
\* unsigned integer above the signed maximum being kept as a negative store
\* integer on the way; a floating-point NaN comes back as null.
C19_RoundTripButNaN ==
    cell.at = "extracted" =>
        /\ cell.param # ParamF64("nan") => cell.out = cell.param
        /\ cell.param = ParamF64("nan") => cell.out = ParamNull
        /\ (cell.param.k = "Usize" /\ cell.param.n >= Word \div 2) => cell.native.i < 0

\* the largest unsigned word came back after being stored as -1
C19_Witness ==
    /\ cell.at = "extracted"
    /\ cell.param = ParamUsize(Word - 1)
    /\ cell.native = NativeInteger(0 - 1)
    /\ cell.out = ParamUsize(Word - 1)

\* C20: under fair scheduling every execute_and_wait, insert and query_map
\* call eventually returns, the call whose envelope was enqueued before the
\* worker returned on a failed open, with a handle still alive, included.
C20_EveryCallReturns ==
    \A e \in Ids :
        (task[e].op \in {"execute_and_wait", "insert", "query_map"}) ~> Returned(e)

====
